---- MODULE Spec2Model ----
(***************************************************************************)
(* The loader test's DependencyGraph (aptos-move/e2e-tests/src/loader):    *)
(* a DAG of Move modules, the expected-value oracle over it, the batch of  *)
(* publish / invoke transactions execute builds from it, and the Invoke /  *)
(* UpdateEdge operations of LoaderTransactionGen.                          *)
(*                                                                         *)
(* A node is its NodeIndex (petgraph hands them out 0, 1, 2, ... in        *)
(* add_node order, so the NodeIndex is the creation index).  Graph<Node,   *)
(* ()> has unit edge weights, so its edges are given by the number of      *)
(* edges of every ordered pair: edges[<<a, b>>] counts the edges a -> b.   *)
(***************************************************************************)
EXTENDS Integers, Sequences, FiniteSets, TLC

\* Bounds of the model.
MaxNodes == 3      \* at most this many (account, self_value, name) specs
MaxSelf == 1       \* self_value ranges over 0 .. MaxSelf (a u16 in the code)
MaxRaw == 3        \* a raw Index ranges over 0 .. MaxRaw
MaxEdges == 2      \* at most this many (Index, Index) edge attempts
MaxTxns == 2       \* at most this many additional_txns

VARIABLES
    args,             \* the (accounts, edge_indices) the strategy hands to create
    phase,            \* position of the test: new, created, ready, executing, done, failed, or a panic
    node_count,       \* graph.node_count()
    self_value,       \* Node.self_value, by NodeIndex
    expected_value,   \* Node.expected_value, by NodeIndex
    sequence_number,  \* Node.account_data.sequence_number(), by NodeIndex
    sender_sequence,  \* sender_account.sequence_number()
    edges,            \* graph edges: ordered pair of NodeIndex -> number of edges
    txns,             \* execute's local txns: the batch built so far
    gens,             \* the additional_txns consumed so far, in order
    rets,             \* what generate_txn returned for each of them
    snaps,            \* the graph before the first and after each consumed operation
    outputs           \* the statuses execute_block returned

vars == <<args, phase, node_count, self_value, expected_value, sequence_number,
          sender_sequence, edges, txns, gens, rets, snaps, outputs>>

\* The two ways the code panics before the batch is executed.
PanicEmpty == "panic: index into an empty collection"

PanicCyclic == "panic: Dep graph should be acyclic"

NoPanic == "none"

NodeIndices(n) == 0 .. (n - 1)

Pairs(n) == NodeIndices(n) \X NodeIndices(n)

RawIndex == 0 .. MaxRaw

SelfValues == 0 .. MaxSelf

\* Index::index of aptos_proptest_helpers: position raw mod len (len > 0).
IndexOf(raw, len) == raw % len

\* Sum of f[i] * g(i) over i in 0 .. k-1.
RECURSIVE WeightedSum(_, _, _)
WeightedSum(w, v, k) ==
    IF k = 0 THEN 0 ELSE w[k - 1] * v[k - 1] + WeightedSum(w, v, k - 1)

\* graph.add_edge(a, b, ())
add_edge(e, a, b) == [e EXCEPT ![<<a, b>>] = @ + 1]

\* graph.find_edge(a, b).is_some()
find_edge(e, a, b) == e[<<a, b>>] > 0

\* remove_edge taking every edge a -> b out, not the one found.
remove_edge_all(e, a, b) == [e EXCEPT ![<<a, b>>] = 0]

\* graph.remove_edge(edge) for an edge a -> b found by find_edge
remove_edge(e, a, b) == [e EXCEPT ![<<a, b>>] = @ - 1]

\* graph.neighbors_directed(idx, Outgoing): the successors of idx, each as often
\* as there are edges to it.
Outgoing(e, idx, n) == [d \in NodeIndices(n) |-> e[<<idx, d>>]]

\* create_edge adding an edge only between a pair that has none.
create_edge_once(e, lhs, rhs) ==
    IF lhs > rhs /\ ~find_edge(e, lhs, rhs) THEN add_edge(e, lhs, rhs)
    ELSE IF lhs < rhs /\ ~find_edge(e, rhs, lhs) THEN add_edge(e, rhs, lhs)
    ELSE e

\* create_edge without the swap of the Less arm.
create_edge_unswapped(e, lhs, rhs) ==
    IF lhs # rhs THEN add_edge(e, lhs, rhs) ELSE e

\* create's match on lhs.cmp(rhs) for one edge attempt.
create_edge(e, lhs, rhs) ==
    IF lhs > rhs THEN add_edge(e, lhs, rhs)
    ELSE IF lhs < rhs THEN add_edge(e, rhs, lhs)
    ELSE e

\* The loop of create over the edge attempts, from attempt k on.
RECURSIVE CreateEdges(_, _, _, _)
CreateEdges(attempts, k, n, e) ==
    IF k > Len(attempts) THEN e
    ELSE CreateEdges(attempts, k + 1, n,
            create_edge(e, IndexOf(attempts[k][1], n), IndexOf(attempts[k][2], n)))

\* petgraph's toposort: an order of all nodes in which every edge goes from an
\* earlier to a later node; none exists (Err) when the graph has a cycle.
Toposort(e, n) ==
    { ord \in [1 .. n -> NodeIndices(n)] :
        /\ \A i, j \in 1 .. n : i # j => ord[i] # ord[j]
        /\ \A i, j \in 1 .. n : e[<<ord[i], ord[j]>>] > 0 => i < j }

\* The loop of caculate_expected_values over accounts.iter().rev(), with k
\* nodes of the order still to process.  The sums are u64 in the code; with
\* self values of 16 bits none comes near 2^64 for graphs of the sizes here.
RECURSIVE CalcLoop(_, _, _, _, _, _)
CalcLoop(accounts, k, ev, e, sv, n) ==
    IF k = 0 THEN ev
    ELSE LET account_idx == accounts[k]
             result == WeightedSum(Outgoing(e, account_idx, n), ev, n)
         IN CalcLoop(accounts, k - 1,
                [ev EXCEPT ![account_idx] = result + sv[account_idx]], e, sv, n)

\* DependencyGraph::strategy: any accounts and any edge attempts.
Init ==
    /\ \E n \in 0 .. MaxNodes :
       \E sv \in [NodeIndices(n) -> SelfValues] :
       \E k \in 0 .. MaxEdges :
       \E attempts \in [1 .. k -> RawIndex \X RawIndex] :
           args = [accounts |-> sv, edges |-> attempts]
    /\ phase = "new"
    /\ node_count = 0
    /\ self_value = <<>>
    /\ expected_value = <<>>
    /\ sequence_number = <<>>
    /\ sender_sequence = 0
    /\ edges = <<>>
    /\ txns = <<>>
    /\ gens = <<>>
    /\ rets = <<>>
    /\ snaps = <<>>
    /\ outputs = <<>>

NoArgs == <<>>

\* DependencyGraph::create.  Index::get on the empty indices fails.
Create ==
    /\ phase = "new"
    /\ LET n == Cardinality(DOMAIN args.accounts)
       IN IF n = 0 /\ Len(args.edges) > 0
          THEN /\ phase' = PanicEmpty
               /\ UNCHANGED <<node_count, self_value, expected_value,
                              sequence_number, edges>>
          ELSE /\ phase' = "created"
               /\ node_count' = n
               /\ self_value' = args.accounts
               /\ expected_value' = [i \in NodeIndices(n) |-> 0]
               /\ sequence_number' = [i \in NodeIndices(n) |-> 0]
               /\ edges' = CreateEdges(args.edges, 1, n, [p \in Pairs(n) |-> 0])
    /\ args' = NoArgs
    /\ sender_sequence' = 0
    /\ UNCHANGED <<txns, gens, rets, snaps, outputs>>

SenderAccount == <<"sender">>

ModuleAccount(node_idx) == <<"module", node_idx>>

\* The graph as one value: what the methods of DependencyGraph read and write.
Graph ==
    [node_count |-> node_count, self_value |-> self_value,
     expected_value |-> expected_value, sequence_number |-> sequence_number,
     sender_sequence |-> sender_sequence, edges |-> edges]

\* invoke_at without the increment of the sender's sequence number.
invoke_at_same_sequence(g, node_idx) ==
    [txn |-> [kind |-> "invoke",
              sender |-> SenderAccount,
              sequence_number |-> g.sender_sequence,
              module |-> node_idx,
              arg |-> g.expected_value[node_idx]],
     graph |-> g]

\* invoke_at passing the node's self_value as the argument of foo_entry.
invoke_at_self_value(g, node_idx) ==
    [txn |-> [kind |-> "invoke",
              sender |-> SenderAccount,
              sequence_number |-> g.sender_sequence,
              module |-> node_idx,
              arg |-> g.self_value[node_idx]],
     graph |-> [g EXCEPT !.sender_sequence = @ + 1]]

\* invoke_at: the entry-function call of foo_entry(expected_value) on the node,
\* signed by the sender account, whose sequence number is then incremented.
invoke_at(g, node_idx) ==
    [txn |-> [kind |-> "invoke",
              sender |-> SenderAccount,
              sequence_number |-> g.sender_sequence,
              module |-> node_idx,
              arg |-> g.expected_value[node_idx]],
     graph |-> [g EXCEPT !.sender_sequence = @ + 1]]

\* build_package_for_node taking the dependencies from the incoming neighbours.
build_package_incoming(g, node_idx) ==
    [txn |-> [kind |-> "publish",
              sender |-> ModuleAccount(node_idx),
              sequence_number |-> g.sequence_number[node_idx],
              module |-> node_idx,
              deps |-> [d \in NodeIndices(g.node_count) |-> g.edges[<<d, node_idx>>]],
              self_value |-> g.self_value[node_idx]],
     graph |-> [g EXCEPT !.sequence_number[node_idx] = @ + 1]]

\* build_package_for_node incrementing the sender account's sequence number
\* as well.
build_package_sender_sequence(g, node_idx) ==
    [txn |-> [kind |-> "publish",
              sender |-> ModuleAccount(node_idx),
              sequence_number |-> g.sequence_number[node_idx],
              module |-> node_idx,
              deps |-> Outgoing(g.edges, node_idx, g.node_count),
              self_value |-> g.self_value[node_idx]],
     graph |-> [g EXCEPT !.sequence_number[node_idx] = @ + 1,
                         !.sender_sequence = @ + 1]]

\* build_package_for_node: the package of the node, generated from its outgoing
\* neighbours and its self_value, published by the node's own account, whose
\* sequence number is then incremented.
build_package_for_node(g, node_idx) ==
    [txn |-> [kind |-> "publish",
              sender |-> ModuleAccount(node_idx),
              sequence_number |-> g.sequence_number[node_idx],
              module |-> node_idx,
              deps |-> Outgoing(g.edges, node_idx, g.node_count),
              self_value |-> g.self_value[node_idx]],
     graph |-> [g EXCEPT !.sequence_number[node_idx] = @ + 1]]

\* caculate_expected_values summing over the distinct successors of a node
\* instead of over its outgoing edges.
caculate_expected_values_distinct(g) ==
    { [g EXCEPT !.expected_value =
            CalcLoop(accounts, g.node_count, g.expected_value,
                     [p \in Pairs(g.node_count) |-> IF g.edges[p] > 0 THEN 1 ELSE 0],
                     g.self_value, g.node_count)] :
        accounts \in Toposort(g.edges, g.node_count) }

\* caculate_expected_values keeping an expected_value that is already set
\* (not 0) instead of computing it again.
caculate_expected_values_cached(g) ==
    { [g EXCEPT !.expected_value =
            LET ev == CalcLoop(accounts, g.node_count, g.expected_value, g.edges,
                               g.self_value, g.node_count)
            IN [idx \in NodeIndices(g.node_count) |->
                   IF g.expected_value[idx] # 0 THEN g.expected_value[idx]
                   ELSE ev[idx]]] :
        accounts \in Toposort(g.edges, g.node_count) }

\* caculate_expected_values storing the sum in self_value as well.
caculate_expected_values_into_self(g) ==
    { [g EXCEPT !.expected_value =
            CalcLoop(accounts, g.node_count, g.expected_value, g.edges,
                     g.self_value, g.node_count),
                !.self_value =
            CalcLoop(accounts, g.node_count, g.expected_value, g.edges,
                     g.self_value, g.node_count)] :
        accounts \in Toposort(g.edges, g.node_count) }

\* caculate_expected_values walking the order of toposort forwards, dependents
\* before their dependencies.
caculate_expected_values_forward(g) ==
    { [g EXCEPT !.expected_value =
            CalcLoop([i \in 1 .. g.node_count |-> accounts[g.node_count + 1 - i]],
                     g.node_count, g.expected_value, g.edges,
                     g.self_value, g.node_count)] :
        accounts \in Toposort(g.edges, g.node_count) }

\* caculate_expected_values: the graphs it can leave, one per order toposort
\* may return; none when toposort fails and the expect panics.
caculate_expected_values(g) ==
    { [g EXCEPT !.expected_value =
            CalcLoop(accounts, g.node_count, g.expected_value, g.edges,
                     g.self_value, g.node_count)] :
        accounts \in Toposort(g.edges, g.node_count) }

\* The first loop of execute, over accounts.iter().rev(), with k nodes to go.
RECURSIVE PublishLoop(_, _, _)
PublishLoop(accounts, k, st) ==
    IF k = 0 THEN st
    ELSE LET b == build_package_for_node(st.graph, accounts[k])
         IN PublishLoop(accounts, k - 1,
                [txns |-> Append(st.txns, b.txn), graph |-> b.graph])

\* The second loop of execute, over accounts.iter(), from position k on.
RECURSIVE InvokeLoop(_, _, _)
InvokeLoop(accounts, k, st) ==
    IF k > Len(accounts) THEN st
    ELSE LET i == invoke_at(st.graph, accounts[k])
         IN InvokeLoop(accounts, k + 1,
                [txns |-> Append(st.txns, i.txn), graph |-> i.graph])

\* ExecuteInitial publishing in the order of toposort, dependents first.
ExecuteInitialForward(g, accounts) ==
    InvokeLoop(accounts, 1,
        PublishLoop([i \in 1 .. Len(accounts) |-> accounts[Len(accounts) + 1 - i]],
                    Len(accounts), [txns |-> <<>>, graph |-> g]))

\* execute up to its loop over additional_txns, for one order of toposort.
ExecuteInitial(g, accounts) ==
    InvokeLoop(accounts, 1,
        PublishLoop(accounts, Len(accounts), [txns |-> <<>>, graph |-> g]))

\* UpdateEdge republishing the node the edge points to.
UpdateEdgeOtherEnd(g, lhs_idx, rhs_idx) ==
    LET toggled == IF find_edge(g.edges, lhs_idx, rhs_idx)
                   THEN remove_edge(g.edges, lhs_idx, rhs_idx)
                   ELSE add_edge(g.edges, lhs_idx, rhs_idx)
        recomputed == caculate_expected_values([g EXCEPT !.edges = toggled])
    IN { LET b == build_package_for_node(c, rhs_idx)
         IN [panic |-> NoPanic, ret |-> <<b.txn>>, graph |-> b.graph] :
         c \in recomputed }

\* UpdateEdge without the call of caculate_expected_values.
UpdateEdgeStale(g, lhs_idx, rhs_idx) ==
    LET toggled == IF find_edge(g.edges, lhs_idx, rhs_idx)
                   THEN remove_edge(g.edges, lhs_idx, rhs_idx)
                   ELSE add_edge(g.edges, lhs_idx, rhs_idx)
        b == build_package_for_node([g EXCEPT !.edges = toggled], lhs_idx)
    IN {[panic |-> NoPanic, ret |-> <<b.txn>>, graph |-> b.graph]}

\* UpdateEdge looking for the edge in the direction rhs_idx -> lhs_idx, which
\* no edge has, and so always adding one.
UpdateEdgeReversedFind(g, lhs_idx, rhs_idx) ==
    LET toggled == IF find_edge(g.edges, rhs_idx, lhs_idx)
                   THEN remove_edge(g.edges, lhs_idx, rhs_idx)
                   ELSE add_edge(g.edges, lhs_idx, rhs_idx)
        recomputed == caculate_expected_values([g EXCEPT !.edges = toggled])
    IN { LET b == build_package_for_node(c, lhs_idx)
         IN [panic |-> NoPanic, ret |-> <<b.txn>>, graph |-> b.graph] :
         c \in recomputed }

\* The UpdateEdge arm of generate_txn after the indices are resolved and
\* ordered (lhs_idx > rhs_idx): toggle the edge, recompute, republish lhs_idx.
UpdateEdge(g, lhs_idx, rhs_idx) ==
    LET toggled == IF find_edge(g.edges, lhs_idx, rhs_idx)
                   THEN remove_edge(g.edges, lhs_idx, rhs_idx)
                   ELSE add_edge(g.edges, lhs_idx, rhs_idx)
        recomputed == caculate_expected_values([g EXCEPT !.edges = toggled])
    IN IF recomputed = {}
       THEN {[panic |-> PanicCyclic, ret |-> <<>>, graph |-> [g EXCEPT !.edges = toggled]]}
       ELSE { LET b == build_package_for_node(c, lhs_idx)
              IN [panic |-> NoPanic, ret |-> <<b.txn>>, graph |-> b.graph] :
              c \in recomputed }

\* generate_txn without the swap of the Less arm.
generate_txn_unswapped(g, gen) ==
    IF g.node_count = 0
    THEN {[panic |-> PanicEmpty, ret |-> <<>>, graph |-> g]}
    ELSE IF gen[1] = "Invoke"
    THEN LET i == invoke_at(g, IndexOf(gen[2], g.node_count))
         IN {[panic |-> NoPanic, ret |-> <<i.txn>>, graph |-> i.graph]}
    ELSE LET lhs_idx == IndexOf(gen[2], g.node_count)
             rhs_idx == IndexOf(gen[3], g.node_count)
         IN IF lhs_idx # rhs_idx THEN UpdateEdge(g, lhs_idx, rhs_idx)
            ELSE {[panic |-> NoPanic, ret |-> <<>>, graph |-> g]}

\* generate_txn resolving a raw index beyond the last node to the last node.
generate_txn_clamped(g, gen) ==
    IF g.node_count = 0
    THEN {[panic |-> PanicEmpty, ret |-> <<>>, graph |-> g]}
    ELSE LET Clamp(raw) == IF raw < g.node_count THEN raw ELSE g.node_count - 1
         IN IF gen[1] = "Invoke"
            THEN LET i == invoke_at(g, Clamp(gen[2]))
                 IN {[panic |-> NoPanic, ret |-> <<i.txn>>, graph |-> i.graph]}
            ELSE LET lhs_idx == Clamp(gen[2])
                     rhs_idx == Clamp(gen[3])
                 IN IF lhs_idx > rhs_idx THEN UpdateEdge(g, lhs_idx, rhs_idx)
                    ELSE IF lhs_idx < rhs_idx THEN UpdateEdge(g, rhs_idx, lhs_idx)
                    ELSE {[panic |-> NoPanic, ret |-> <<>>, graph |-> g]}

\* generate_txn running caculate_expected_values before an Invoke.
generate_txn_recompute(g, gen) ==
    IF g.node_count = 0
    THEN {[panic |-> PanicEmpty, ret |-> <<>>, graph |-> g]}
    ELSE IF gen[1] = "Invoke"
    THEN { LET i == invoke_at(c, IndexOf(gen[2], g.node_count))
           IN [panic |-> NoPanic, ret |-> <<i.txn>>, graph |-> i.graph] :
           c \in caculate_expected_values(g) }
    ELSE LET lhs_idx == IndexOf(gen[2], g.node_count)
             rhs_idx == IndexOf(gen[3], g.node_count)
         IN IF lhs_idx > rhs_idx THEN UpdateEdge(g, lhs_idx, rhs_idx)
            ELSE IF lhs_idx < rhs_idx THEN UpdateEdge(g, rhs_idx, lhs_idx)
            ELSE {[panic |-> NoPanic, ret |-> <<>>, graph |-> g]}

\* generate_txn without the early return of the Equal arm.
generate_txn_no_return(g, gen) ==
    IF g.node_count = 0
    THEN {[panic |-> PanicEmpty, ret |-> <<>>, graph |-> g]}
    ELSE IF gen[1] = "Invoke"
    THEN LET i == invoke_at(g, IndexOf(gen[2], g.node_count))
         IN {[panic |-> NoPanic, ret |-> <<i.txn>>, graph |-> i.graph]}
    ELSE LET lhs_idx == IndexOf(gen[2], g.node_count)
             rhs_idx == IndexOf(gen[3], g.node_count)
         IN IF lhs_idx >= rhs_idx THEN UpdateEdge(g, lhs_idx, rhs_idx)
            ELSE UpdateEdge(g, rhs_idx, lhs_idx)

\* generate_txn: the outcomes it can have for gen on graph g.  ret is the
\* Option it returns: <<>> for None, <<txn>> for Some(txn).
generate_txn(g, gen) ==
    IF g.node_count = 0
    THEN {[panic |-> PanicEmpty, ret |-> <<>>, graph |-> g]}
    ELSE IF gen[1] = "Invoke"
    THEN LET i == invoke_at(g, IndexOf(gen[2], g.node_count))
         IN {[panic |-> NoPanic, ret |-> <<i.txn>>, graph |-> i.graph]}
    ELSE LET lhs_idx == IndexOf(gen[2], g.node_count)
             rhs_idx == IndexOf(gen[3], g.node_count)
         IN IF lhs_idx > rhs_idx THEN UpdateEdge(g, lhs_idx, rhs_idx)
            ELSE IF lhs_idx < rhs_idx THEN UpdateEdge(g, rhs_idx, lhs_idx)
            ELSE {[panic |-> NoPanic, ret |-> <<>>, graph |-> g]}

\* LoaderTransactionGen
LoaderTransactionGen ==
    {<<"Invoke", i>> : i \in RawIndex}
        \cup {<<"UpdateEdge", i, j>> : i \in RawIndex, j \in RawIndex}

SetGraph(g) ==
    /\ node_count' = g.node_count
    /\ self_value' = g.self_value
    /\ expected_value' = g.expected_value
    /\ sequence_number' = g.sequence_number
    /\ sender_sequence' = g.sender_sequence
    /\ edges' = g.edges

\* DependencyGraph::caculate_expected_values, called by the test before execute.
CaculateExpectedValues ==
    /\ phase \in {"created", "ready"}
    /\ IF caculate_expected_values(Graph) = {}
       THEN /\ phase' = PanicCyclic
            /\ UNCHANGED expected_value
       ELSE /\ phase' = "ready"
            /\ \E g \in caculate_expected_values(Graph) :
                 expected_value' = g.expected_value
    /\ UNCHANGED <<args, node_count, self_value, sequence_number, sender_sequence,
                   edges, txns, gens, rets, snaps, outputs>>

\* execute, from its start to the loop over additional_txns.
Execute ==
    /\ phase \in {"created", "ready"}
    /\ IF Toposort(edges, node_count) = {}
       THEN /\ phase' = PanicCyclic
            /\ UNCHANGED <<node_count, self_value, expected_value, sequence_number,
                           sender_sequence, edges, txns, snaps>>
       ELSE /\ phase' = "executing"
            /\ \E accounts \in Toposort(edges, node_count) :
                 LET st == ExecuteInitial(Graph, accounts)
                 IN /\ txns' = st.txns
                    /\ SetGraph(st.graph)
                    /\ snaps' = <<st.graph>>
    /\ UNCHANGED <<args, gens, rets, outputs>>

\* One round of execute's loop over additional_txns: generate_txn(txn_gen), and
\* the push of the transaction it returns, if any.
GenerateTxn ==
    /\ phase = "executing"
    /\ Len(gens) < MaxTxns
    /\ \E txn_gen \in LoaderTransactionGen :
       \E out \in generate_txn(Graph, txn_gen) :
           /\ phase' = IF out.panic = NoPanic THEN "executing" ELSE out.panic
           /\ SetGraph(out.graph)
           /\ txns' = txns \o out.ret
           /\ gens' = Append(gens, txn_gen)
           /\ rets' = Append(rets, out.ret)
           /\ snaps' = Append(snaps, out.graph)
    /\ UNCHANGED <<args, outputs>>

\* ---- The executor (FakeExecutor), as the test relies on it ----

Success == "Keep(Success)"

Failure == "Keep(Failure)"

Discard == "Discard"

Accounts(n) == {SenderAccount} \cup {ModuleAccount(i) : i \in NodeIndices(n)}

\* setup: every node's account and the sender account are added to the
\* executor with the sequence number they have; nothing is published yet.
setup(n) ==
    [sequence_number |-> [a \in Accounts(n) |-> 0],
     code |-> [i \in NodeIndices(n) |-> <<>>]]

\* What foo() of the published module i returns: its self_value plus one call
\* of foo() of each listed dependency; -1 when the call cannot be resolved.
RECURSIVE foo(_, _, _, _)
foo(code, i, n, fuel) ==
    IF fuel = 0 \/ code[i] = <<>> THEN -1
    ELSE LET pkg == code[i][1]
             called == [d \in NodeIndices(n) |->
                          IF pkg.deps[d] > 0 THEN foo(code, d, n, fuel - 1) ELSE 0]
         IN IF \E d \in NodeIndices(n) : called[d] < 0 THEN -1
            ELSE pkg.self_value + WeightedSum(pkg.deps, called, n)

\* One transaction on the executor state st: its status and the state after it.
execute_txn(st, txn, n) ==
    IF txn.sequence_number # st.sequence_number[txn.sender]
    THEN [status |-> Discard, state |-> st]
    ELSE LET bumped == [st EXCEPT !.sequence_number[txn.sender] = @ + 1]
         IN IF txn.kind = "publish"
            THEN IF \A d \in NodeIndices(n) : txn.deps[d] > 0 => st.code[d] # <<>>
                 THEN [status |-> Success,
                       state |-> [bumped EXCEPT !.code[txn.module] =
                                    <<[deps |-> txn.deps, self_value |-> txn.self_value]>>]]
                 ELSE [status |-> Failure, state |-> bumped]
            ELSE IF foo(st.code, txn.module, n, n + 1) = txn.arg
                 THEN [status |-> Success, state |-> bumped]
                 ELSE [status |-> Failure, state |-> bumped]

\* execute_block: the statuses of the transactions, in order, from position k on.
RECURSIVE execute_block(_, _, _, _)
execute_block(st, ts, k, n) ==
    IF k > Len(ts) THEN <<>>
    ELSE LET r == execute_txn(st, ts[k], n)
         IN <<r.status>> \o execute_block(r.state, ts, k + 1, n)

\* The end of execute without the assertion on the statuses.
ExecuteBlockLenient ==
    /\ phase = "executing"
    /\ outputs' = execute_block(setup(node_count), txns, 1, node_count)
    /\ phase' = "done"
    /\ UNCHANGED <<args, node_count, self_value, expected_value, sequence_number,
                   sender_sequence, edges, txns, gens, rets, snaps>>

\* The end of execute: the batch goes to the executor and every status is
\* asserted to be Keep(Success).
ExecuteBlock ==
    /\ phase = "executing"
    /\ outputs' = execute_block(setup(node_count), txns, 1, node_count)
    /\ phase' = IF \A k \in 1 .. Len(outputs') : outputs'[k] = Success
                THEN "done" ELSE "failed"
    /\ UNCHANGED <<args, node_count, self_value, expected_value, sequence_number,
                   sender_sequence, edges, txns, gens, rets, snaps>>

Next ==
    \/ Create
    \/ CaculateExpectedValues
    \/ Execute
    \/ GenerateTxn
    \/ ExecuteBlock

Spec == Init /\ [][Next]_vars

\* The test as the loader test suite runs it: create, caculate_expected_values,
\* then execute.
NextRun ==
    \/ Create
    \/ phase = "created" /\ CaculateExpectedValues
    \/ phase = "ready" /\ Execute
    \/ GenerateTxn
    \/ ExecuteBlock

SpecRun == Init /\ [][NextRun]_vars

\* ---- Two fixed dependency graphs ----

\* The state before create, whatever the arguments.
Unbuilt ==
    /\ phase = "new"
    /\ node_count = 0
    /\ self_value = <<>>
    /\ expected_value = <<>>
    /\ sequence_number = <<>>
    /\ sender_sequence = 0
    /\ edges = <<>>
    /\ txns = <<>>
    /\ gens = <<>>
    /\ rets = <<>>
    /\ snaps = <<>>
    /\ outputs = <<>>

\* An edge attempt for the pair p: the pair in either order, since create
\* orients an edge by the comparison of the two indices.
Attempt(p) == {p, <<p[2], p[1]>>}

\* The chain M1 -> M2 -> M3: M3, M2, M1 are nodes 0, 1, 2 and have self_value
\* 11, 7, 5.
ChainSelf == (0 :> 11) @@ (1 :> 7) @@ (2 :> 5)

ChainPairs == <<(<<2, 1>>), (<<1, 0>>)>>

ChainExpected == (0 :> 11) @@ (1 :> 18) @@ (2 :> 23)

InitChain ==
    /\ \E attempts \in [1 .. Len(ChainPairs) -> RawIndex \X RawIndex] :
           /\ \A k \in 1 .. Len(ChainPairs) : attempts[k] \in Attempt(ChainPairs[k])
           /\ args = [accounts |-> ChainSelf, edges |-> attempts]
    /\ Unbuilt

SpecChain == InitChain /\ [][Next]_vars

\* The diamond M1 -> M2, M1 -> M3, M2 -> M4, M3 -> M4: M4, M2, M3, M1 are nodes
\* 0, 1, 2, 3 and every self_value is 1.
DiamondSelf == (0 :> 1) @@ (1 :> 1) @@ (2 :> 1) @@ (3 :> 1)

DiamondPairs == <<(<<3, 1>>), (<<3, 2>>), (<<1, 0>>), (<<2, 0>>)>>

DiamondEdges ==
    [p \in Pairs(Len(DiamondPairs)) |->
        IF \E k \in 1 .. Len(DiamondPairs) : DiamondPairs[k] = p THEN 1 ELSE 0]

DiamondExpected == (0 :> 1) @@ (1 :> 2) @@ (2 :> 2) @@ (3 :> 5)

InitDiamond ==
    /\ \E attempts \in [1 .. Len(DiamondPairs) -> RawIndex \X RawIndex] :
           /\ \A k \in 1 .. Len(DiamondPairs) :
                  attempts[k] \in Attempt(DiamondPairs[k])
           /\ args = [accounts |-> DiamondSelf, edges |-> attempts]
    /\ Unbuilt

\* Any dependency graph of the strategy, or the diamond.
SpecDiamond == (Init \/ InitDiamond) /\ [][Next]_vars

\* ---- Properties ----

\* Sum of f[x] over x in S.
RECURSIVE SumOver(_, _)
SumOver(S, f) ==
    IF S = {} THEN 0
    ELSE LET x == CHOOSE y \in S : TRUE IN f[x] + SumOver(S \ {x}, f)

\* expected_value[idx] is self_value[idx] plus the expected_value at the head of
\* each outgoing edge of idx, in graph g.
SumHolds(g, idx) ==
    g.expected_value[idx] =
        g.self_value[idx]
          + SumOver(NodeIndices(g.node_count),
                    [d \in NodeIndices(g.node_count) |->
                        g.edges[<<idx, d>>] * g.expected_value[d]])

\* The UpdateEdge operations among the consumed ones whose indices resolve to
\* two distinct nodes, and the greater and lesser node of each.
IsUpdate(k) == gens[k][1] = "UpdateEdge" /\ node_count > 0

Hi(k) ==
    IF gens[k][2] % node_count > gens[k][3] % node_count
    THEN gens[k][2] % node_count ELSE gens[k][3] % node_count

Lo(k) ==
    IF gens[k][2] % node_count > gens[k][3] % node_count
    THEN gens[k][3] % node_count ELSE gens[k][2] % node_count

Changing == {k \in 1 .. Len(gens) : IsUpdate(k) /\ Hi(k) # Lo(k)}

\* C1: in every state of a constructed graph every edge goes from a node of
\* strictly greater creation index to one of strictly lesser creation index, a
\* topological order exists, and the "Dep graph should be acyclic" panic of
\* caculate_expected_values and execute is never reached.
C1_EdgesPointDown ==
    /\ phase # PanicCyclic
    /\ phase # "new" =>
         /\ \A p \in Pairs(node_count) : edges[p] > 0 => p[1] > p[2]
         /\ Toposort(edges, node_count) # {}

\* C1 witness: two operations were applied and an edge absent at the start of
\* the batch was inserted by an UpdateEdge and is in the graph.
C1_Witness ==
    /\ phase = "executing"
    /\ Len(gens) = 2
    /\ \E k \in Changing :
         /\ snaps[k].edges[<<Hi(k), Lo(k)>>] = 0
         /\ edges[<<Hi(k), Lo(k)>>] = 1

\* C2 as claimed: at every point from construct on, every node's expected_value
\* is its self_value plus the expected_value of each outgoing edge's head.
C2_SumAlways ==
    phase # "new" => \A idx \in NodeIndices(node_count) : SumHolds(Graph, idx)

AllSumsHold == \A idx \in NodeIndices(node_count) : SumHolds(Graph, idx)

\* C2 amended: create leaves every expected_value 0; every run of
\* caculate_expected_values, the test's own call and the one inside each
\* UpdateEdge on two distinct nodes, leaves every node's expected_value equal to
\* its self_value plus the expected_value of each outgoing edge's head (an edge
\* of multiplicity k counting k times); and once that holds, every operation
\* keeps it.
C2_SumOnceCalculated ==
    [][/\ (phase = "new" /\ phase' = "created") =>
            \A idx \in NodeIndices(node_count') : expected_value'[idx] = 0
       /\ phase' = "ready" => AllSumsHold'
       /\ (Len(gens') > Len(gens) /\ Len(gens') \in Changing') => AllSumsHold'
       /\ (phase # "new" /\ AllSumsHold) => AllSumsHold']_vars

\* C2 witness: an UpdateEdge changed a pair joined by parallel edges under a
\* node that depends on the changed one, and the values were recomputed.
C2_Witness ==
    /\ phase = "executing"
    /\ \E k \in Changing :
         /\ snaps[k].edges[<<Hi(k), Lo(k)>>] = 2
         /\ \A idx \in NodeIndices(node_count) : SumHolds(snaps[k], idx)
         /\ snaps[k + 1].expected_value[Hi(k)] # snaps[k].expected_value[Hi(k)]
         /\ \E idx \in NodeIndices(node_count) :
              /\ edges[<<idx, Hi(k)>>] > 0
              /\ snaps[k + 1].expected_value[idx] # snaps[k].expected_value[idx]

C4_TwiceRestores ==
    \A k \in 1 .. Len(gens) - 1 :
        (IsUpdate(k) /\ gens[k + 1] = gens[k] /\ Len(snaps) = Len(gens) + 1) =>
            /\ snaps[k + 2].edges = snaps[k].edges
            /\ snaps[k + 2].expected_value = snaps[k].expected_value

\* C5: an UpdateEdge whose two indices resolve to the same node returns None
\* and leaves the edges, every expected_value, every node account's sequence
\* number and the sender's sequence number as they were.
C5_SameNodeNoOp ==
    \A k \in 1 .. Len(gens) :
        (IsUpdate(k) /\ Hi(k) = Lo(k)) =>
            /\ rets[k] = <<>>
            /\ snaps[k + 1] = snaps[k]
            /\ phase \notin {PanicEmpty, PanicCyclic}

\* C5 witness: two different raw indices resolved to one node of a graph that
\* has an edge, after an operation that did return a transaction.
C5_Witness ==
    /\ Len(gens) = 2
    /\ rets[1] # <<>>
    /\ IsUpdate(2)
    /\ Hi(2) = Lo(2)
    /\ gens[2][2] # gens[2][3]
    /\ \E p \in Pairs(node_count) : edges[p] > 0

\* C6: an UpdateEdge on two distinct nodes hi > lo takes exactly one edge
\* hi -> lo out when there is at least one, and otherwise puts exactly one in;
\* the number of edges of every other ordered pair, lo -> hi among them, stays.
C6_Toggle ==
    \A k \in Changing :
        LET old == snaps[k].edges
            new == snaps[k + 1].edges
        IN /\ new[<<Hi(k), Lo(k)>>] =
                 IF old[<<Hi(k), Lo(k)>>] >= 1 THEN old[<<Hi(k), Lo(k)>>] - 1 ELSE 1
           /\ \A q \in Pairs(node_count) : q # <<Hi(k), Lo(k)>> => new[q] = old[q]
           /\ new[<<Lo(k), Hi(k)>>] = 0

\* C6 witness: an UpdateEdge took one of two parallel edges out, and another
\* UpdateEdge put an edge in between a pair that had none.
C6_Witness ==
    /\ \E k \in Changing :
         /\ snaps[k].edges[<<Hi(k), Lo(k)>>] = 2
         /\ snaps[k + 1].edges[<<Hi(k), Lo(k)>>] = 1
    /\ \E k \in Changing :
         /\ snaps[k].edges[<<Hi(k), Lo(k)>>] = 0
         /\ snaps[k + 1].edges[<<Hi(k), Lo(k)>>] = 1

\* C7: an UpdateEdge on two distinct nodes changes the graph, leaves every
\* node's expected_value recomputed for the changed graph, and returns exactly
\* one transaction: the publish of the greater node, signed by that node's
\* account and listing that node's outgoing edges after the change.
C7_RepublishDependent ==
    \A k \in Changing :
        /\ snaps[k + 1].edges # snaps[k].edges
        /\ \A idx \in NodeIndices(node_count) : SumHolds(snaps[k + 1], idx)
        /\ Len(rets[k]) = 1
        /\ rets[k][1].kind = "publish"
        /\ rets[k][1].module = Hi(k)
        /\ rets[k][1].sender = ModuleAccount(Hi(k))
        /\ rets[k][1].deps = [d \in NodeIndices(node_count) |->
                                 snaps[k + 1].edges[<<Hi(k), d>>]]
        /\ rets[k][1].self_value = self_value[Hi(k)]

\* C7 witness: the changed node has a dependent and still has an outgoing edge,
\* and the expected_value of the dependent changed with it.
C7_Witness ==
    \E k \in Changing :
        /\ \E idx \in NodeIndices(node_count) :
             /\ snaps[k + 1].edges[<<idx, Hi(k)>>] > 0
             /\ snaps[k + 1].expected_value[idx] # snaps[k].expected_value[idx]
        /\ \E d \in NodeIndices(node_count) : rets[k][1].deps[d] > 0
        /\ Len(rets[k]) = 1

\* The transactions of the batch before position i signed by the signer of
\* the one at i.
SignedBefore(i) == {j \in 1 .. (i - 1) : txns[j].sender = txns[i].sender}

SignedBy(account) == {j \in 1 .. Len(txns) : txns[j].sender = account}

\* C8: every transaction carries the number of transactions its signer signed
\* before it (publishes are signed by the node's account, invokes by the
\* sender account), and every account's sequence number is the number of
\* transactions it signed.
C8_SequenceNumbers ==
    /\ \A i \in 1 .. Len(txns) :
         /\ txns[i].sequence_number = Cardinality(SignedBefore(i))
         /\ txns[i].sender =
              IF txns[i].kind = "publish" THEN ModuleAccount(txns[i].module)
              ELSE SenderAccount
    /\ \A idx \in NodeIndices(node_count) :
         sequence_number[idx] = Cardinality(SignedBy(ModuleAccount(idx)))
    /\ sender_sequence = Cardinality(SignedBy(SenderAccount))

\* C8 witness: one node account signed three publishes and the sender more
\* invokes than there are nodes.
C8_Witness ==
    /\ \E idx \in NodeIndices(node_count) : sequence_number[idx] = 3
    /\ \E idx \in NodeIndices(node_count) : sequence_number[idx] = 1
    /\ node_count = 3

RECURSIVE Flatten(_)
Flatten(ss) == IF ss = <<>> THEN <<>> ELSE Head(ss) \o Flatten(Tail(ss))

\* C9: the batch is one publish per node, each after the publish of every node
\* it has an edge to; then one invoke per node, a node before every node it has
\* an edge to; then the transactions the operations returned, in their order.
C9_BatchOrder ==
    snaps # <<>> =>
        LET n == node_count
            first == snaps[1].edges
        IN /\ Len(txns) >= 2 * n
           /\ \A i \in 1 .. n :
                /\ txns[i].kind = "publish"
                /\ \A d \in NodeIndices(n) :
                     first[<<txns[i].module, d>>] > 0 =>
                        \E j \in 1 .. (i - 1) : txns[j].module = d
           /\ {txns[i].module : i \in 1 .. n} = NodeIndices(n)
           /\ \A i \in (n + 1) .. (2 * n) :
                /\ txns[i].kind = "invoke"
                /\ \A j \in (n + 1) .. (2 * n) :
                     first[<<txns[i].module, txns[j].module>>] > 0 => i < j
           /\ {txns[i].module : i \in (n + 1) .. (2 * n)} = NodeIndices(n)
           /\ SubSeq(txns, 2 * n + 1, Len(txns)) = Flatten(rets)

\* C9 witness: a batch of three nodes with edges, followed by an operation
\* that returned nothing and one that returned a transaction.
C9_Witness ==
    /\ phase = "done"
    /\ node_count = 3
    /\ snaps[1].edges[<<2, 1>>] > 0
    /\ snaps[1].edges[<<1, 0>>] > 0
    /\ Len(gens) = 2
    /\ rets[1] = <<>>
    /\ rets[2] # <<>>

\* The edge attempts handed to create whose indices resolve to hi and lo, in
\* either order.
AttemptsOn(hi, lo, n) ==
    {k \in 1 .. Len(args.edges) :
        {args.edges[k][1] % n, args.edges[k][2] % n} = {hi, lo}}

C11_OneOfBothOrders ==
    [][(phase = "new" /\ phase' = "created") =>
         \A hi, lo \in NodeIndices(node_count') :
             (/\ hi > lo
              /\ \E k \in 1 .. Len(args.edges) :
                   /\ args.edges[k][1] % node_count' = hi
                   /\ args.edges[k][2] % node_count' = lo
              /\ \E k \in 1 .. Len(args.edges) :
                   /\ args.edges[k][1] % node_count' = lo
                   /\ args.edges[k][2] % node_count' = hi)
             => edges'[<<hi, lo>>] + edges'[<<lo, hi>>] = 1]_vars

\* The Invoke operations among the consumed ones, on a graph with nodes.
Invokes == {k \in 1 .. Len(gens) : gens[k][1] = "Invoke" /\ node_count > 0}

\* C12: an Invoke returns exactly one transaction: the call of the node at
\* position index mod node_count, signed by the sender account, with the
\* expected_value the node had before the operation as its argument; and it
\* leaves every expected_value as it was.
C12_InvokeCached ==
    \A k \in Invokes :
        /\ Len(rets[k]) = 1
        /\ rets[k][1].kind = "invoke"
        /\ rets[k][1].sender = SenderAccount
        /\ rets[k][1].module = gens[k][2] % node_count
        /\ rets[k][1].arg = snaps[k].expected_value[gens[k][2] % node_count]
        /\ snaps[k + 1].expected_value = snaps[k].expected_value

\* C12 witness: an Invoke of a raw index beyond the node count, on a node whose
\* cached expected_value is not what caculate_expected_values would give.
C12_Witness ==
    \E k \in Invokes :
        /\ gens[k][2] >= node_count
        /\ rets[k] # <<>>
        /\ ~SumHolds(snaps[k], gens[k][2] % node_count)
        /\ rets[k][1].arg = 0

IsLeaf(g, idx) == \A d \in NodeIndices(g.node_count) : g.edges[<<idx, d>>] = 0

LeavesKeepSelf(g) ==
    \A idx \in NodeIndices(g.node_count) :
        IsLeaf(g, idx) => g.expected_value[idx] = g.self_value[idx]

Finished == {"done", "failed"}

\* C15: execute hands the whole batch to the executor once, at its end: there
\* is one status per transaction of the batch, execute fails exactly when one
\* of them is not Keep(Success), and nothing happens after that (no transaction
\* is built or submitted again).
C15_SubmitOnce ==
    [][/\ phase' \in Finished =>
            /\ phase = "executing"
            /\ outputs = <<>>
            /\ txns' = txns
            /\ Len(outputs') = Len(txns)
            /\ (phase' = "failed") <=>
                   (\E k \in 1 .. Len(outputs') : outputs'[k] # Success)
       /\ (phase \notin Finished /\ phase' \notin Finished) => outputs' = <<>>
       /\ phase \notin Finished]_vars

\* C15 witness: a batch of which one transaction was not kept with success,
\* after execute has failed on it.
C15_Witness ==
    /\ phase = "failed"
    /\ Len(outputs) = Len(txns)
    /\ \E k \in 1 .. Len(outputs) : outputs[k] # Success
    /\ \E k \in 1 .. Len(outputs) : outputs[k] = Success

\* C16: create, Invoke and UpdateEdge resolve a raw index to the node raw mod
\* node_count; they fail exactly when there is no node to resolve to: create
\* with no account and some edge attempt, Invoke and UpdateEdge on an empty
\* graph, which then return no transaction.
C16_IndexResolution ==
    [][/\ phase = "new" =>
            LET n == Cardinality(DOMAIN args.accounts)
            IN /\ (phase' = PanicEmpty) <=> (n = 0 /\ args.edges # <<>>)
               /\ phase' # PanicEmpty =>
                    \A k \in 1 .. Len(args.edges) :
                        LET a == args.edges[k][1] % n
                            b == args.edges[k][2] % n
                        IN /\ a > b => edges'[<<a, b>>] > 0
                           /\ a < b => edges'[<<b, a>>] > 0
       /\ Len(gens') > Len(gens) =>
            LET gen == gens'[Len(gens')]
                ret == rets'[Len(rets')]
            IN /\ (phase' = PanicEmpty) <=> (node_count = 0)
               /\ node_count = 0 => (ret = <<>> /\ txns' = txns)
               /\ (node_count > 0 /\ gen[1] = "Invoke") =>
                    (Len(ret) = 1 /\ ret[1].module = gen[2] % node_count)
               /\ (node_count > 0 /\ gen[1] = "UpdateEdge") =>
                    LET a == gen[2] % node_count
                        b == gen[3] % node_count
                    IN /\ a = b => (ret = <<>> /\ edges' = edges)
                       /\ a > b => (ret # <<>> => ret[1].module = a)
                                   /\ edges'[<<a, b>>] # edges[<<a, b>>]
                       /\ a < b => (ret # <<>> => ret[1].module = b)
                                   /\ edges'[<<b, a>>] # edges[<<b, a>>]]_vars

\* C16 witness: an UpdateEdge whose two raw indices both lie beyond the node
\* count, resolved to two distinct nodes.
C16_Witness ==
    /\ node_count = 2
    /\ gens # <<>>
    /\ gens[1] = <<"UpdateEdge", 3, 2>>
    /\ rets[1] # <<>>
    /\ rets[1][1].module = 1
    /\ snaps[2].edges[<<1, 0>>] # snaps[1].edges[<<1, 0>>]

\* The publish transactions of node idx in the batch, and the last of them.
Publishes(idx) ==
    {i \in 1 .. Len(txns) : txns[i].kind = "publish" /\ txns[i].module = idx}

LastPublish(idx) == CHOOSE i \in Publishes(idx) : \A j \in Publishes(idx) : j <= i

\* C17: once a node has been published, the dependencies of its latest publish
\* transaction are, edge for edge, its outgoing edges in the graph; and an
\* UpdateEdge leaves the outgoing edges of every node but the republished one
\* as they were.
C17_PublishedDeps ==
    /\ \A idx \in NodeIndices(node_count) :
           Publishes(idx) # {} =>
               txns[LastPublish(idx)].deps = Outgoing(edges, idx, node_count)
    /\ \A k \in Changing :
       \A idx \in NodeIndices(node_count) \ {Hi(k)} :
           Outgoing(snaps[k + 1].edges, idx, node_count)
               = Outgoing(snaps[k].edges, idx, node_count)

\* C17 witness: two UpdateEdge operations have changed the edges of two
\* different nodes, so the latest publish of the first is not the end of the
\* batch.
C17_Witness ==
    /\ Changing = {1, 2}
    /\ Hi(1) # Hi(2)
    /\ LastPublish(Hi(1)) < Len(txns)
    /\ txns[LastPublish(Hi(1))].deps # txns[Hi(1) + 1].deps

\* The graphs that are graph g with other expected_values stored.
Recached(g) ==
    {[g EXCEPT !.expected_value = ev] : ev \in [NodeIndices(g.node_count) -> SelfValues]}

\* C18: caculate_expected_values gives one result whatever order toposort
\* returns and whatever expected_values were stored before (any, after create
\* and after a call; those of before the edge change, inside an UpdateEdge);
\* in its result every expected_value is the self_value plus the final
\* expected_values of the dependencies; and a second call changes nothing.
C18_FullRecomputation ==
    LET res == caculate_expected_values(Graph)
    IN /\ phase \in {"created", "ready"} =>
            /\ Cardinality(res) = 1
            /\ \A h \in Recached(Graph) :
                   {c.expected_value : c \in caculate_expected_values(h)}
                       = {c.expected_value : c \in res}
            /\ \A c \in res :
                   /\ \A idx \in NodeIndices(node_count) : SumHolds(c, idx)
                   /\ caculate_expected_values(c) = {c}
       /\ (gens # <<>> /\ Len(gens) \in Changing) =>
            /\ res = {Graph}
            /\ \A idx \in NodeIndices(node_count) : SumHolds(Graph, idx)
            /\ caculate_expected_values(
                   [Graph EXCEPT !.expected_value = snaps[Len(gens)].expected_value])
                 = {Graph}
            /\ caculate_expected_values(
                   [Graph EXCEPT !.expected_value =
                       [idx \in NodeIndices(node_count) |-> 0]])
                 = {Graph}

\* C18 witness: an UpdateEdge removed an edge of a node whose expected_value was
\* set, and the recomputation brought it down to the new sum.
C18_Witness ==
    \E k \in Changing :
        /\ snaps[k + 1].edges[<<Hi(k), Lo(k)>>] < snaps[k].edges[<<Hi(k), Lo(k)>>]
        /\ snaps[k + 1].expected_value[Hi(k)] > 0
        /\ snaps[k + 1].expected_value[Hi(k)] < snaps[k].expected_value[Hi(k)]
        /\ SumHolds(snaps[k + 1], Hi(k))

\* C19: after create no step changes the number of nodes, a self_value, or
\* the set of node indices the expected_values, sequence numbers and edges
\* are kept for.
C19_NodesFixed ==
    [][phase # "new" =>
         /\ node_count' = node_count
         /\ self_value' = self_value
         /\ DOMAIN expected_value' = NodeIndices(node_count)
         /\ DOMAIN sequence_number' = NodeIndices(node_count)
         /\ DOMAIN edges' = Pairs(node_count)]_vars

\* C19 witness: a graph of three nodes at the end of a batch with an Invoke and
\* an edge-changing UpdateEdge, during which expected_values, edges and
\* sequence numbers did change.
C19_Witness ==
    /\ phase = "done"
    /\ node_count = 3
    /\ Invokes # {}
    /\ Changing # {}
    /\ snaps[Len(snaps)].self_value = snaps[1].self_value
    /\ snaps[Len(snaps)].expected_value # snaps[1].expected_value
    /\ snaps[Len(snaps)].edges # snaps[1].edges

\* C20: an Invoke adds one to the sender account's sequence number and changes
\* nothing else of the graph; an UpdateEdge on two distinct nodes adds one to
\* the sequence number of the account of the dependent node and leaves the
\* sender's and every other module account's sequence number as it was.
C20_SequenceEffects ==
    /\ \A k \in Invokes :
           snaps[k + 1] = [snaps[k] EXCEPT !.sender_sequence = @ + 1]
    /\ \A k \in Changing :
           /\ snaps[k + 1].sender_sequence = snaps[k].sender_sequence
           /\ snaps[k + 1].sequence_number
                  = [snaps[k].sequence_number EXCEPT ![Hi(k)] = @ + 1]

\* C20 witness: an Invoke and then an UpdateEdge that republished a node for
\* the second time.
C20_Witness ==
    /\ Len(gens) = 2
    /\ Invokes = {1}
    /\ Changing = {2}
    /\ node_count > 2
    /\ snaps[3].sequence_number[Hi(2)] = 2
    /\ snaps[3].sender_sequence = node_count + 1

\* The larger of two numbers.
Max(a, b) == IF a > b THEN a ELSE b

\* C21: an UpdateEdge adds an edge only to a pair of nodes that has none, so
\* at any point of the batch no pair has more edges than the larger of 1 and
\* the number create gave it.
C21_NoParallelInsert ==
    /\ snaps # <<>> =>
         \A p \in Pairs(node_count) : edges[p] <= Max(1, snaps[1].edges[p])
    /\ \A k \in Changing :
         snaps[k + 1].edges[<<Hi(k), Lo(k)>>] > snaps[k].edges[<<Hi(k), Lo(k)>>]
             => snaps[k].edges[<<Hi(k), Lo(k)>>] = 0

\* C21 witness: create gave one pair two parallel edges; an UpdateEdge took
\* one away, which left an edge, and the next UpdateEdge on the pair, finding
\* that edge, did not add one but removed it.
C21_Witness ==
    /\ Changing = {1, 2}
    /\ snaps[1].edges[<<Hi(1), Lo(1)>>] = 2
    /\ snaps[2].edges[<<Hi(1), Lo(1)>>] = 1
    /\ Hi(2) = Hi(1) /\ Lo(2) = Lo(1)
    /\ snaps[3].edges[<<Hi(1), Lo(1)>>] = 0

\* The outcome operation k had.
Outcome(k) ==
    [panic |-> IF k = Len(gens) /\ phase \in {PanicEmpty, PanicCyclic}
               THEN phase ELSE NoPanic,
     ret |-> rets[k],
     graph |-> snaps[k + 1]]

\* C22: UpdateEdge(a, b) and UpdateEdge(b, a) have the same outcomes from the
\* same graph: the edges, expected_values and sequence numbers they leave and
\* the transaction they return, which is the publish of the same node.
C22_Symmetric ==
    \A k \in 1 .. Len(gens) :
        gens[k][1] = "UpdateEdge" =>
            /\ generate_txn(snaps[k], gens[k])
                 = generate_txn(snaps[k], <<"UpdateEdge", gens[k][3], gens[k][2]>>)
            /\ Outcome(k) \in
                 generate_txn(snaps[k], <<"UpdateEdge", gens[k][3], gens[k][2]>>)

\* C22 witness: UpdateEdge(a, b) with a resolving below b, which takes the
\* swap, then UpdateEdge(b, a); both republished the same node.
C22_Witness ==
    /\ Changing = {1, 2}
    /\ gens[1][2] % node_count < gens[1][3] % node_count
    /\ gens[2] = <<"UpdateEdge", gens[1][3], gens[1][2]>>
    /\ rets[1][1].module = rets[2][1].module
    /\ rets[1][1].module = gens[1][3] % node_count
    /\ snaps[3].edges = snaps[1].edges

====
